---- MODULE Spec2Model ----
(***************************************************************************)
(* Model of automation/fetch_access_token.py: load_config, the Selenium   *)
(* login, the KiteConnect token exchange and the backend notification     *)
(* with its retry loop, run either through main() or called directly.     *)
(*                                                                         *)
(* Python strings are sequences of characters; None is a sentinel.        *)
(***************************************************************************)
EXTENDS Integers, Sequences, FiniteSets, TLC

VARIABLES
    entry,          \* the function under execution at top level
    pc,             \* position in the program
    result,         \* "running", "returned", or the name of the uncaught exception
    cfgIdx,         \* load_config: index of the next os.getenv to evaluate
    cfg,            \* the ZerodhaConfig under construction / loaded
    rawBlank,       \* env names read so far whose raw value was unset or blank
    driver,         \* "none" | "open" | "quit"
    quits,          \* number of driver.quit() calls
    step,           \* login_and_get_request_token: index of the next browser step
    pending,        \* selenium_driver: how the with-body was left ("return" or an exception)
    request_token,  \* value returned by login_and_get_request_token
    session_data,   \* dict returned by kite.generate_session
    file,           \* the token file: "untouched" | "truncated" | "written"
    requestsJsonErr,\* what response.json() raises in the installed requests
    max_retries, retry_delay,   \* notify_backend's parameters
    payload,        \* notify_backend: the JSON body
    attempt,        \* notify_backend: loop variable
    posts,          \* outcomes of the requests.post calls made, in order
    sleeps,         \* arguments of the time.sleep calls made, in order
    started,        \* main: functions called, in order
    completed,      \* main: functions that returned, in order
    net             \* kinds of network activity performed so far

vars == <<entry, pc, result, cfgIdx, cfg, rawBlank, driver, quits, step,
          pending, request_token, session_data, file, requestsJsonErr, max_retries,
          retry_delay, payload, attempt, posts, sleeps, started, completed, net>>

(***************************************************************************)
(* Bounds of the model.                                                    *)
(***************************************************************************)
\* longest raw value of a required environment variable
MaxLen == 2
\* longest raw value of an optional environment variable
MaxOptLen == 1
\* largest max_retries passed to notify_backend in a direct call
MaxRetriesBound == 4

(***************************************************************************)
(* Python values.                                                          *)
(***************************************************************************)
None == <<"None">>
EmptyStr == <<>>
Chars == {" ", "a"}

Strings(n) == UNION {[1..k -> Chars] : k \in 0..n}

\* bool(v) for None and str
Truthy(v) == v # None /\ v # EmptyStr

\* a or b
Or(a, b) == IF Truthy(a) THEN a ELSE b

RECURSIVE LStrip(_)
LStrip(s) == IF s # <<>> /\ Head(s) = " " THEN LStrip(Tail(s)) ELSE s

RECURSIVE RStrip(_)
RStrip(s) == IF s # <<>> /\ s[Len(s)] = " " THEN RStrip(SubSeq(s, 1, Len(s) - 1)) ELSE s

\* str.strip()
Strip(s) == RStrip(LStrip(s))

\* os.getenv(name, default) where raw is the environment's value or None when unset
Getenv(raw, default) == IF raw = None THEN default ELSE raw

(***************************************************************************)
(* ZerodhaConfig and load_config.                                          *)
(***************************************************************************)
DEFAULT_BACKEND_UPDATE_URL == <<"https://web-production-de0bc.up.railway.app/api/modules/auth/broker/token/update">>
DEFAULT_SOURCE_LABEL == <<"automation">>

\* the fields of ZerodhaConfig, in declaration order
Fields == <<"api_key", "api_secret", "totp_secret", "user_id", "password",
            "token_output_path", "backend_update_url", "backend_source_label">>

\* the environment variable load_config reads for each field
EnvVars == <<"Z_API_KEY", "Z_API_SECRET", "Z_TOTP_SECRET", "Z_USER_ID", "Z_PASSWORD",
             "TOKEN_OUTPUT_PATH", "BACKEND_UPDATE_URL", "BACKEND_SOURCE_LABEL">>

FieldSet == {Fields[i] : i \in 1..Len(Fields)}

\* the dataclass defaults
ZerodhaConfig == [f \in FieldSet |->
                    CASE f = "backend_update_url" -> DEFAULT_BACKEND_UPDATE_URL
                      [] f = "backend_source_label" -> DEFAULT_SOURCE_LABEL
                      [] f = "token_output_path" -> None
                      [] OTHER -> EmptyStr]

\* faulty variant: the required values are not stripped
ConfigValueNoStrip(i, raw) ==
    CASE i <= 5 -> Getenv(raw, EmptyStr)
      [] i = 6 -> Or(Strip(Getenv(raw, EmptyStr)), None)
      [] i = 7 -> Or(Strip(Getenv(raw, EmptyStr)), DEFAULT_BACKEND_UPDATE_URL)
      [] OTHER -> Or(Getenv(raw, DEFAULT_SOURCE_LABEL), DEFAULT_SOURCE_LABEL)

\* the keyword argument expression of load_config for field number i
ConfigValue(i, raw) ==
    CASE i <= 5 -> Strip(Getenv(raw, EmptyStr))
      [] i = 6 -> Or(Strip(Getenv(raw, EmptyStr)), None)
      [] i = 7 -> Or(Strip(Getenv(raw, EmptyStr)), DEFAULT_BACKEND_UPDATE_URL)
      [] OTHER -> Or(Getenv(raw, DEFAULT_SOURCE_LABEL), DEFAULT_SOURCE_LABEL)

\* names exempt from the missing check
Exempt == {"token_output_path", "backend_source_label"}

\* faulty variant: token_output_path is not exempt from the check
MissingOnlyLabelExempt(c) ==
    {f \in FieldSet : c[f] \in {EmptyStr, None} /\ f \notin {"backend_source_label"}}

\* missing = [name for name, value in vars(cfg).items() if value in ("", None) and ...]
Missing(c) == {f \in FieldSet : c[f] \in {EmptyStr, None} /\ f \notin Exempt}

\* raw values of the environment explored in a run of main
EnvSamples == {None, <<>>, <<" ">>, <<" ", "a", " ">>}

\* raw values the environment may hold for variable number i (None: unset)
EnvDomain(i) ==
    IF entry = "main" THEN EnvSamples
    ELSE IF i <= 5 THEN Strings(MaxLen) \cup {None}
    ELSE Strings(MaxOptLen) \cup {None}

\* a raw environment value that is unset, empty or whitespace-only
IsBlank(raw) == raw = None \/ \A i \in 1..Len(raw) : raw[i] = " "

(***************************************************************************)
(* Control flow: return from / raise out of the function running at top   *)
(* level or called by main.  An exception is never caught by main.        *)
(***************************************************************************)
Return(f) ==
    IF entry = "main"
    THEN pc' = "main" /\ completed' = Append(completed, f) /\ result' = result
    ELSE pc' = "done" /\ completed' = completed /\ result' = "returned"

Raise(exc) == pc' = "done" /\ result' = exc /\ completed' = completed

cfgVars == <<cfgIdx, cfg, rawBlank>>
loginVars == <<driver, quits, step, pending, request_token>>
exchangeVars == <<session_data, file>>
notifyVars == <<payload, attempt, posts, sleeps>>
paramVars == <<entry, requestsJsonErr, max_retries, retry_delay>>

\* one keyword argument of ZerodhaConfig(...) is evaluated (lines 65-72)
load_config_getenv ==
    /\ pc = "load_config"
    /\ cfgIdx <= Len(Fields)
    /\ \E raw \in EnvDomain(cfgIdx) :
          /\ cfg' = [cfg EXCEPT ![Fields[cfgIdx]] = ConfigValue(cfgIdx, raw)]
          /\ rawBlank' = IF IsBlank(raw) THEN rawBlank \cup {EnvVars[cfgIdx]} ELSE rawBlank
    /\ cfgIdx' = cfgIdx + 1
    /\ UNCHANGED <<pc, result, completed, started, net>>
    /\ UNCHANGED <<loginVars, exchangeVars, notifyVars, paramVars>>

\* the missing check and the return (lines 75-82)
load_config_check ==
    /\ pc = "load_config"
    /\ cfgIdx = Len(Fields) + 1
    /\ IF Missing(cfg) # {} THEN Raise("ValueError") ELSE Return("load_config")
    /\ UNCHANGED <<started, net>>
    /\ UNCHANGED <<cfgVars, loginVars, exchangeVars, notifyVars, paramVars>>

(***************************************************************************)
(* selenium_driver and login_and_get_request_token.                        *)
(***************************************************************************)
\* the browser calls of the with-body up to the redirect wait, in order, each
\* with the exception it raises when it fails
BrowserSteps == <<
    [call |-> "driver.get",                 exc |-> "WebDriverException"],
    [call |-> "wait.until(userid)",         exc |-> "TimeoutException"],
    [call |-> "find_element(password)",     exc |-> "NoSuchElementException"],
    [call |-> "send_keys(user, password)",  exc |-> "WebDriverException"],
    [call |-> "find_element(submit).click", exc |-> "NoSuchElementException"],
    [call |-> "generate_totp",              exc |-> "binascii.Error"],
    [call |-> "wait.until(totp)",           exc |-> "TimeoutException"],
    [call |-> "send_keys(totp)",            exc |-> "WebDriverException"],
    [call |-> "find_element(submit).click", exc |-> "NoSuchElementException"] >>

\* A URL is the sequence of its "&"-separated parts; a part is a sequence of
\* pieces: the literal "request_token=", the same in upper case, or other text.
RT == "request_token="
RT_UPPER == "REQUEST_TOKEN="

UrlParts == { <<"x">>,                      \* https://host/cb?status=success
              <<"x", RT, "x">>,             \* https://host/cb?request_token=abc
              <<RT, "x">>,                  \* request_token=abc
              <<"x", RT>>,                  \* https://host/cb?request_token=
              <<"x", RT_UPPER, "x">>,       \* https://host/cb?REQUEST_TOKEN=abc
              <<RT, "x", RT, "x", "x">> }   \* request_token=a request_token=bc

\* longest redirect URL, in parts
MaxUrlParts == 2

RedirectUrls == UNION {[1..k -> UrlParts] : k \in 1..MaxUrlParts}

\* str.lower() of a part
Lower(part) == [i \in 1..Len(part) |-> IF part[i] = RT_UPPER THEN RT ELSE part[i]]

\* "request_token=" in part
HasRequestToken(part) == \E i \in 1..Len(part) : part[i] = RT

\* the lambda of line 129: "request_token=" in d.current_url.lower()
RedirectSeen(url) == \E k \in 1..Len(url) : HasRequestToken(Lower(url[k]))

\* part.split("request_token=")[-1]
SplitLast(part) ==
    IF HasRequestToken(part)
    THEN LET last == CHOOSE i \in 1..Len(part) :
                        part[i] = RT /\ \A j \in (i + 1)..Len(part) : part[j] # RT
         IN SubSeq(part, last + 1, Len(part))
    ELSE part

\* the loop of lines 132-136: the first part holding "request_token=" decides
ParseRequestToken(url) ==
    IF \E k \in 1..Len(url) : HasRequestToken(url[k])
    THEN LET first == CHOOSE k \in 1..Len(url) :
                         HasRequestToken(url[k]) /\ \A j \in 1..(k - 1) : ~HasRequestToken(url[j])
         IN SplitLast(url[first])
    ELSE None

\* faulty variant: no try/finally, the driver is quit on return only
LeaveWithBodyNoFinally(how) ==
    IF how = "return"
    THEN /\ pending' = how
         /\ pc' = "selenium_driver.finally"
         /\ UNCHANGED <<result, completed>>
    ELSE pending' = how /\ Raise(how)

\* the with-body of login_and_get_request_token is left, by return or by an
\* exception: control goes to the finally clause of selenium_driver (lines 99-102)
LeaveWithBody(how) ==
    /\ pending' = how
    /\ pc' = "selenium_driver.finally"
    /\ UNCHANGED <<result, completed>>

\* selenium_driver up to the yield (lines 93-100): ChromeDriverManager().install()
\* and webdriver.Chrome(...) either raise, and no driver exists, or yield a driver
selenium_driver_enter ==
    /\ pc = "selenium_driver"
    /\ net' = net \cup {"chromedriver"}
    /\ \E ok \in BOOLEAN :
         IF ok
         THEN /\ driver' = "open"
              /\ step' = 1
              /\ pc' = "login"
              /\ UNCHANGED <<result, completed>>
         ELSE /\ Raise("WebDriverException")
              /\ UNCHANGED <<driver, step>>
    /\ UNCHANGED <<quits, pending, request_token, started>>
    /\ UNCHANGED <<cfgVars, exchangeVars, notifyVars, paramVars>>

\* one browser call of lines 109-126
login_browser_step ==
    /\ pc = "login"
    /\ step <= Len(BrowserSteps)
    /\ net' = net \cup {"browser"}
    /\ \E ok \in BOOLEAN :
         IF ok
         THEN /\ step' = step + 1
              /\ UNCHANGED <<pc, result, completed, pending>>
         ELSE /\ LeaveWithBody(BrowserSteps[step].exc)
              /\ step' = step
    /\ UNCHANGED <<driver, quits, request_token, started>>
    /\ UNCHANGED <<cfgVars, exchangeVars, notifyVars, paramVars>>

\* lines 129-141: the redirect wait times out, or the URL it accepted is parsed
login_redirect ==
    /\ pc = "login"
    /\ step = Len(BrowserSteps) + 1
    /\ \/ /\ LeaveWithBody("TimeoutException")
          /\ UNCHANGED request_token
       \/ \E url \in RedirectUrls :
            /\ RedirectSeen(url)
            /\ LET token == ParseRequestToken(url)
               IN IF ~Truthy(token)
                  THEN LeaveWithBody("RuntimeError") /\ UNCHANGED request_token
                  ELSE LeaveWithBody("return") /\ request_token' = token
    /\ UNCHANGED <<driver, quits, step, started, net>>
    /\ UNCHANGED <<cfgVars, exchangeVars, notifyVars, paramVars>>

\* the finally clause of selenium_driver (lines 101-102); driver.quit() may raise
selenium_driver_finally ==
    /\ pc = "selenium_driver.finally"
    /\ quits' = quits + 1
    /\ driver' = "quit"
    /\ \E quitOk \in BOOLEAN :
         IF ~quitOk THEN Raise("WebDriverException")
         ELSE IF pending = "return" THEN Return("login_and_get_request_token")
         ELSE Raise(pending)
    /\ UNCHANGED <<step, pending, request_token, started, net>>
    /\ UNCHANGED <<cfgVars, exchangeVars, notifyVars, paramVars>>

(***************************************************************************)
(* Python dicts: sets of <<key, value>> pairs with distinct keys.          *)
(***************************************************************************)
HasKey(d, k) == \E p \in d : p[1] = k

\* d.get(k)
DictGet(d, k) == IF HasKey(d, k) THEN (CHOOSE p \in d : p[1] = k)[2] ELSE None

Token == <<"t", "o", "k">>
Expiry == <<"e", "x", "p">>

\* what kite.generate_session may return
SessionDatas ==
    { {},
      {<<"expires_in", Expiry>>},
      {<<"access_token", None>>},
      {<<"access_token", EmptyStr>>},
      {<<"access_token", Token>>},
      {<<"access_token", Token>>, <<"expires_in", Expiry>>, <<"expires_at", Expiry>>} }

(***************************************************************************)
(* generate_access_token.                                                  *)
(***************************************************************************)
\* faulty variant: the file is opened before the key is looked up
AfterSessionWriteFirst(d) ==
    IF Truthy(cfg["token_output_path"])
    THEN pc' = "generate_access_token.write" /\ UNCHANGED <<result, completed>>
    ELSE IF ~HasKey(d, "access_token") THEN Raise("KeyError")
    ELSE Return("generate_access_token")

\* lines 148-154 after generate_session returned d: the subscript raises KeyError
\* when the key is absent; the file is written only if token_output_path is set
AfterSession(d) ==
    IF ~HasKey(d, "access_token") THEN Raise("KeyError")
    ELSE IF Truthy(cfg["token_output_path"])
    THEN pc' = "generate_access_token.write" /\ UNCHANGED <<result, completed>>
    ELSE Return("generate_access_token")

\* lines 146-150: the token exchange; the SDK raises or returns a dict
generate_access_token_session ==
    /\ pc = "generate_access_token"
    /\ net' = net \cup {"kite"}
    /\ \/ /\ Raise("KiteException")
          /\ UNCHANGED session_data
       \/ \E d \in SessionDatas :
            /\ session_data' = d
            /\ AfterSession(d)
    /\ UNCHANGED <<file, started>>
    /\ UNCHANGED <<cfgVars, loginVars, notifyVars, paramVars>>

\* lines 151-154: open(path, "w") creates or truncates the file, f.write(token)
\* raises TypeError unless token is a str
generate_access_token_write ==
    /\ pc = "generate_access_token.write"
    /\ \E io \in {"ok", "open fails", "write fails"} :
         CASE io = "open fails" -> Raise("OSError") /\ UNCHANGED file
           [] DictGet(session_data, "access_token") = None ->
                Raise("TypeError") /\ file' = "truncated"
           [] io = "write fails" -> Raise("OSError") /\ file' = "truncated"
           [] OTHER -> Return("generate_access_token") /\ file' = "written"
    /\ UNCHANGED <<session_data, started, net>>
    /\ UNCHANGED <<cfgVars, loginVars, notifyVars, paramVars>>

(***************************************************************************)
(* notify_backend.                                                         *)
(***************************************************************************)
DefaultMaxRetries == 3
DefaultRetryDelay == 5

Statuses == {200, 304, 404, 503}
Bodies == {"json", "not json"}

\* what one requests.post call may end in: a response, or a RequestException
\* (connection error, timeout after 20 s, ...)
Outcomes == [kind : {"response"}, status : Statuses, body : Bodies]
            \cup {[kind |-> "RequestException", status |-> 0, body |-> "not json"]}

\* Response.ok: raise_for_status() does not raise
ResponseOk(o) == ~(400 <= o.status /\ o.status < 600)

\* faulty variant: only None counts as missing
TokenMissingNoneOnly(p) == p.access_token = None

\* line 167: not payload["access_token"]
TokenMissing(p) == ~Truthy(p.access_token)

\* lines 159-168: the payload is built; a missing token raises before the loop
notify_backend_begin ==
    /\ pc = "notify_backend"
    /\ payload' = [user_id |-> cfg["user_id"],
                   access_token |-> DictGet(session_data, "access_token"),
                   expires_in |-> DictGet(session_data, "expires_in"),
                   expires_at |-> DictGet(session_data, "expires_at"),
                   source |-> cfg["backend_source_label"]]
    /\ IF TokenMissing(payload')
       THEN Raise("ValueError") /\ UNCHANGED attempt
       ELSE /\ attempt' = 1
            /\ pc' = "notify_backend.loop"
            /\ UNCHANGED <<result, completed>>
    /\ UNCHANGED <<posts, sleeps, started, net>>
    /\ UNCHANGED <<cfgVars, loginVars, exchangeVars, paramVars>>

\* faulty variant: sleeps after the last attempt as well
AfterFailedAttemptSleepAlways ==
    IF attempt <= max_retries
    THEN pc' = "notify_backend.sleep" /\ UNCHANGED <<attempt, result, completed>>
    ELSE attempt' = attempt + 1 /\ UNCHANGED <<pc, result, completed>>

\* faulty variant: the raise of line 195 sits inside the loop
AfterFailedAttemptRaiseInLoop ==
    Raise("RuntimeError") /\ UNCHANGED attempt

\* lines 190-193 after a failed attempt: sleep unless it was the last attempt
AfterFailedAttempt ==
    IF attempt < max_retries
    THEN pc' = "notify_backend.sleep" /\ UNCHANGED <<attempt, result, completed>>
    ELSE attempt' = attempt + 1 /\ UNCHANGED <<pc, result, completed>>

\* lines 170-188: one iteration's POST.  On an ok response the function prints
\* response.json() and returns; json() raises on a body that is not JSON, a
\* requests.JSONDecodeError (a RequestException, caught at line 187) or a plain
\* ValueError (not caught), depending on the installed requests.
notify_backend_post ==
    /\ pc = "notify_backend.loop"
    /\ attempt <= max_retries
    /\ net' = net \cup {"backend"}
    /\ \E o \in Outcomes :
         /\ posts' = Append(posts, o)
         /\ IF o.kind = "response" /\ ResponseOk(o)
            THEN IF o.body = "json"
                 THEN Return("notify_backend") /\ UNCHANGED attempt
                 ELSE IF requestsJsonErr = "RequestException"
                      THEN AfterFailedAttempt
                      ELSE Raise("JSONDecodeError") /\ UNCHANGED attempt
            ELSE AfterFailedAttempt
    /\ UNCHANGED <<payload, sleeps, started>>
    /\ UNCHANGED <<cfgVars, loginVars, exchangeVars, paramVars>>

\* lines 191-193: time.sleep(retry_delay * attempt); a negative argument raises
notify_backend_sleep ==
    /\ pc = "notify_backend.sleep"
    /\ LET sleep_for == retry_delay * attempt
       IN /\ sleeps' = Append(sleeps, sleep_for)
          /\ IF sleep_for < 0
             THEN Raise("ValueError(sleep)") /\ UNCHANGED attempt
             ELSE /\ attempt' = attempt + 1
                  /\ pc' = "notify_backend.loop"
                  /\ UNCHANGED <<result, completed>>
    /\ UNCHANGED <<payload, posts, started, net>>
    /\ UNCHANGED <<cfgVars, loginVars, exchangeVars, paramVars>>

\* line 195: the loop ran out
notify_backend_exhausted ==
    /\ pc = "notify_backend.loop"
    /\ attempt > max_retries
    /\ Raise("RuntimeError")
    /\ UNCHANGED <<payload, attempt, posts, sleeps, started, net>>
    /\ UNCHANGED <<cfgVars, loginVars, exchangeVars, paramVars>>

(***************************************************************************)
(* main.                                                                   *)
(***************************************************************************)
\* faulty variant: the backend is notified before the token exchange
PipelineNotifyBeforeExchange ==
    <<"load_config", "login_and_get_request_token", "notify_backend", "generate_access_token">>

\* the calls of main, in order (lines 199-208)
Pipeline ==
    <<"load_config", "login_and_get_request_token", "generate_access_token", "notify_backend">>

\* where a called function starts
EntryPc(f) == IF f = "login_and_get_request_token" THEN "selenium_driver" ELSE f

\* main calls its next function
main_call ==
    /\ pc = "main"
    /\ Len(completed) < Len(Pipeline)
    /\ LET f == Pipeline[Len(completed) + 1]
       IN /\ started' = Append(started, f)
          /\ pc' = EntryPc(f)
    /\ UNCHANGED <<result, completed, net>>
    /\ UNCHANGED <<cfgVars, loginVars, exchangeVars, notifyVars, paramVars>>

\* line 209: main returns
main_done ==
    /\ pc = "main"
    /\ Len(completed) = Len(Pipeline)
    /\ pc' = "done"
    /\ result' = "returned"
    /\ UNCHANGED <<completed, started, net>>
    /\ UNCHANGED <<cfgVars, loginVars, exchangeVars, notifyVars, paramVars>>

(***************************************************************************)
(* Specifications.                                                         *)
(***************************************************************************)
NoPayload == [user_id |-> None, access_token |-> None, expires_in |-> None,
              expires_at |-> None, source |-> None]

InitCommon ==
    /\ result = "running"
    /\ cfgIdx = 1
    /\ rawBlank = {}
    /\ driver = "none"
    /\ quits = 0
    /\ step = 0
    /\ pending = "none"
    /\ request_token = None
    /\ file = "untouched"
    /\ requestsJsonErr \in {"RequestException", "ValueError"}
    /\ payload = NoPayload
    /\ attempt = 0
    /\ posts = <<>>
    /\ sleeps = <<>>
    /\ started = <<>>
    /\ completed = <<>>
    /\ net = {}

\* a run of main: notify_backend is called with its default parameters
Init ==
    /\ InitCommon
    /\ entry = "main"
    /\ pc = "main"
    /\ cfg = ZerodhaConfig
    /\ session_data = {}
    /\ max_retries = DefaultMaxRetries
    /\ retry_delay = DefaultRetryDelay

Next ==
    \/ main_call
    \/ load_config_getenv
    \/ load_config_check
    \/ selenium_driver_enter
    \/ login_browser_step
    \/ login_redirect
    \/ selenium_driver_finally
    \/ generate_access_token_session
    \/ generate_access_token_write
    \/ notify_backend_begin
    \/ notify_backend_post
    \/ notify_backend_sleep
    \/ notify_backend_exhausted
    \/ main_done

Spec == Init /\ [][Next]_vars

\* load_config called on its own, over every bounded environment
InitConfig ==
    /\ InitCommon
    /\ entry = "load_config"
    /\ pc = "load_config"
    /\ cfg = ZerodhaConfig
    /\ session_data = {}
    /\ max_retries = DefaultMaxRetries
    /\ retry_delay = DefaultRetryDelay

NextConfig == load_config_getenv \/ load_config_check

SpecConfig == InitConfig /\ [][NextConfig]_vars

\* a loaded configuration
LoadedConfig == [f \in FieldSet |->
                   CASE f = "backend_update_url" -> DEFAULT_BACKEND_UPDATE_URL
                     [] f = "backend_source_label" -> DEFAULT_SOURCE_LABEL
                     [] f = "token_output_path" -> None
                     [] OTHER -> <<"a">>]

RetryDelays == {-1, 0, DefaultRetryDelay}

\* notify_backend called on its own, with any session data and parameters
InitNotify ==
    /\ InitCommon
    /\ entry = "notify_backend"
    /\ pc = "notify_backend"
    /\ cfg = LoadedConfig
    /\ session_data \in SessionDatas
    /\ max_retries \in 0..MaxRetriesBound
    /\ retry_delay \in RetryDelays

NextNotify ==
    \/ notify_backend_begin
    \/ notify_backend_post
    \/ notify_backend_sleep
    \/ notify_backend_exhausted

SpecNotify == InitNotify /\ [][NextNotify]_vars

\* every step of notify_backend is taken: the POST is bounded by its timeout,
\* the sleep by its argument, and nothing else runs
FairSpecNotify == SpecNotify /\ WF_vars(NextNotify)

(***************************************************************************)
(* Properties.                                                             *)
(***************************************************************************)
Done == result # "running"

\* the session data passed to notify_backend holds a non-empty access_token
HasToken == \E p \in session_data : p[1] = "access_token" /\ p[2] \notin {None, EmptyStr}

\* notify_backend runs with its default parameters
Defaults == max_retries = 3 /\ retry_delay = 5

\* a 2xx response
Is2xx(o) == o.kind = "response" /\ 200 <= o.status /\ o.status <= 299

\* an attempt that failed: a RequestException or an error status
AttemptFailed(o) ==
    \/ o.kind = "RequestException"
    \/ o.kind = "response" /\ 400 <= o.status /\ o.status <= 599
    \/ /\ o.kind = "response"
       /\ o.status < 400
       /\ o.body = "not json"
       /\ requestsJsonErr = "RequestException"

AllFailed == \A i \in 1..Len(posts) : AttemptFailed(posts[i])

IsPrefix(s, t) == Len(s) <= Len(t) /\ \A i \in 1..Len(s) : s[i] = t[i]

Called(f) == \E i \in 1..Len(started) : started[i] = f

\* C1: with default parameters and a non-empty token, when every attempt fails
\* notify_backend makes exactly 3 POSTs, sleeps 5 then 10 seconds, one sleep
\* between consecutive attempts and none after the third, then raises RuntimeError.
C1_ThreeAttemptsThenRaise ==
    (Defaults /\ HasToken /\ AllFailed) =>
        /\ Len(posts) <= 3
        /\ Len(sleeps) <= 2
        /\ \A k \in 1..Len(sleeps) : sleeps[k] = 5 * k
        /\ pc = "notify_backend.sleep" => Len(sleeps) = Len(posts) - 1
        /\ (pc = "notify_backend.loop" /\ Len(posts) < 3) => Len(sleeps) = Len(posts)
        /\ Len(posts) = 3 => Len(sleeps) = 2
        /\ Done => /\ result = "RuntimeError"
                   /\ Len(posts) = 3
                   /\ sleeps = <<5, 10>>

C1_Witness ==
    /\ Defaults /\ HasToken /\ result = "RuntimeError"
    /\ Len(posts) = 3
    /\ posts[1].kind = "RequestException"
    /\ posts[2].kind = "response" /\ posts[2].status = 503
    /\ sleeps = <<5, 10>>

\* C2: with a non-empty token, when the first POST gets a 2xx response
\* notify_backend returns normally after exactly one POST and no sleep,
\* whatever the response body is.
C2_ReturnsOnFirst2xx ==
    (HasToken /\ Len(posts) >= 1 /\ Is2xx(posts[1])) =>
        /\ result = "returned"
        /\ Len(posts) = 1
        /\ sleeps = <<>>

\* C3: without an access_token in the session data (key absent, None or empty)
\* notify_backend raises ValueError with no POST and no sleep, and never retries.
C3_MissingTokenRaises ==
    ~HasToken =>
        /\ posts = <<>>
        /\ sleeps = <<>>
        /\ attempt = 0
        /\ pc \in {"notify_backend", "done"}
        /\ Done => result = "ValueError"

C3_Witness ==
    /\ result = "ValueError"
    /\ session_data = {<<"access_token", EmptyStr>>}
    /\ posts = <<>>

RequiredEnv == {"Z_API_KEY", "Z_API_SECRET", "Z_TOTP_SECRET", "Z_USER_ID", "Z_PASSWORD"}
OptionalEnv == {"TOKEN_OUTPUT_PATH", "BACKEND_UPDATE_URL", "BACKEND_SOURCE_LABEL"}
RequiredFields == {"api_key", "api_secret", "totp_secret", "user_id", "password"}

\* C4: load_config raises ValueError exactly when a required variable is unset,
\* empty or whitespace-only; the optional variables never make it fail; a
\* returned config has the five required fields and backend_update_url non-empty.
C4_ConfigFailsIffRequiredBlank ==
    Done =>
        /\ result \in {"ValueError", "returned"}
        /\ result = "ValueError" <=> rawBlank \cap RequiredEnv # {}
        /\ result = "returned" =>
              \A f \in RequiredFields \cup {"backend_update_url"} :
                  cfg[f] # None /\ Len(cfg[f]) > 0

C4_Witness ==
    /\ result = "returned"
    /\ OptionalEnv \subseteq rawBlank
    /\ cfg["token_output_path"] = None

\* C5: in a run of main with missing configuration, the run fails before any
\* network activity: no browser session, no token exchange, no file write, no POST.
C5_MissingConfigFailsFast ==
    rawBlank \cap RequiredEnv # {} =>
        /\ net = {}
        /\ driver = "none"
        /\ session_data = {}
        /\ file = "untouched"
        /\ posts = <<>>
        /\ started = <<"load_config">>
        /\ completed = <<>>
        /\ result \in {"running", "ValueError"}

C5_Witness ==
    /\ entry = "main"
    /\ result = "ValueError"
    /\ rawBlank \cap RequiredEnv # {}
    /\ net = {}

StageOrder ==
    <<"load_config", "login_and_get_request_token", "generate_access_token", "notify_backend">>

C6_Stages ==
    /\ IsPrefix(started, StageOrder)
    /\ IsPrefix(completed, started)
    /\ Len(started) <= Len(completed) + 1
    /\ result = "returned" => completed = StageOrder
    /\ (Done /\ result # "returned") => Len(completed) = Len(started) - 1

\* C6: main runs Config, Browser Login, Token Exchange, Backend Notification in
\* that order, each at most once and each only after the previous one returned;
\* after a failure no stage is started; success needs all four to succeed.
C6_LinearPipeline ==
    /\ []C6_Stages
    /\ [][Done => (started' = started /\ completed' = completed)]_vars
    /\ [][started' # started => (~Done /\ Len(completed) = Len(started))]_vars

C6_Witness ==
    /\ result = "returned"
    /\ started = StageOrder
    /\ completed = StageOrder

\* C7: with default parameters notify_backend makes at most 3 POSTs, the k-th
\* sleep is 5*k seconds, and a successful response on attempt k ends the call
\* with exactly k POSTs, k-1 sleeps and a normal return.
C7_RetryPolicy ==
    Defaults =>
        /\ Len(posts) <= 3
        /\ Len(sleeps) <= 2
        /\ \A k \in 1..Len(sleeps) : sleeps[k] = 5 * k
        /\ \A k \in 1..Len(posts) :
              Is2xx(posts[k]) => /\ Len(posts) = k
                                 /\ Len(sleeps) = k - 1
                                 /\ result = "returned"

C9_FileOnlyWithToken ==
    file # "untouched" =>
        /\ cfg["token_output_path"] \notin {None, EmptyStr}
        /\ \E p \in session_data : p[1] = "access_token"
        /\ Called("generate_access_token")

\* C9: the token file is written only when token_output_path is configured and
\* the exchange result holds an access_token, before any backend POST, and is
\* kept when the notification fails; an exchange result without the key fails
\* the run with no file write and no POST.
C9_TokenFile ==
    /\ []C9_FileOnlyWithToken
    /\ [][posts' # <<>> => file' = file]_vars
    /\ [][file = "written" => file' = "written"]_vars
    /\ [][(session_data' # session_data /\ ~\E p \in session_data' : p[1] = "access_token")
            => (result' = "KeyError" /\ file' = "untouched" /\ posts' = <<>>)]_vars

C9_Witness ==
    /\ file = "written"
    /\ result = "RuntimeError"
    /\ Len(posts) = 3

\* C10: a created browser driver is quit exactly once on every exit path of
\* login_and_get_request_token, before the token exchange starts, and no
\* driver is open when main ends.
C10_DriverQuitOnce ==
    /\ quits <= 1
    /\ driver = "quit" <=> quits = 1
    /\ driver = "none" => pc \in {"main", "load_config", "selenium_driver", "done"}
    /\ pc \notin {"login", "selenium_driver.finally"} => driver # "open"
    /\ Called("generate_access_token") => driver = "quit"
    /\ Done => driver # "open"

C10_Witness ==
    /\ result = "RuntimeError"
    /\ started = <<"load_config", "login_and_get_request_token">>
    /\ step = Len(BrowserSteps) + 1
    /\ driver = "quit"
    /\ quits = 1

====
